---- MODULE Spec2Model ----
(***************************************************************************)
(* A model of the order-analysis engine of analysis.py: the period         *)
(* deriver (load_and_prepare_data), the period aggregator                  *)
(* (analyze_by_period), the statistics functions, comprehensive_analysis   *)
(* and the report assembler (export_analysis_to_excel), driven by the      *)
(* "Generar Reporte" handler.                                              *)
(*                                                                         *)
(* A pandas Series is a record [dtype, vals]; a DataFrame is a function    *)
(* from column names to Series of one length.  A cell is a record with a   *)
(* kind field k.  Numbers that pandas holds as floats are kept exact:      *)
(* integers as [k |-> "num"], quotients as reduced fractions.              *)
(***************************************************************************)
EXTENDS Integers, Sequences, FiniteSets, TLC

\* ------------------------------------------------------------------ cells

NaT == [k |-> "NaT"]
NaN == [k |-> "NaN"]
Inf == [k |-> "inf"]

Num(v) == [k |-> "num", v |-> v]
Str(s) == [k |-> "str", s |-> s]
\* A text cell of the uploaded file that reads as a date and time of day.
DateText(y, m, d, h) == [k |-> "datetext", y |-> y, m |-> m, d |-> d, h |-> h]
\* A text cell that reads as a number.
NumText(v) == [k |-> "numtext", v |-> v]
\* A text cell that reads as neither.
Junk == [k |-> "junk"]
Timestamp(y, m, d, h) == [k |-> "Timestamp", y |-> y, m |-> m, d |-> d, h |-> h]
Date(y, m, d) == [k |-> "date", y |-> y, m |-> m, d |-> d]
Period(y, q) == [k |-> "Period", y |-> y, q |-> q]
\* The text strftime('%Y-W%U') produces, kept as its two numbers.
WeekLabel(y, w) == [k |-> "week", y |-> y, w |-> w]

\* pandas isna()
IsNull(c) == c.k \in {"NaT", "NaN"}

Series(dtype, vals) == [dtype |-> dtype, vals |-> vals]

\* ------------------------------------------------------------- sequences

RECURSIVE SumSeq(_)
SumSeq(s) == IF s = <<>> THEN 0 ELSE Head(s) + SumSeq(Tail(s))

Reverse(s) == [i \in 1..Len(s) |-> s[Len(s) + 1 - i]]

Range(s) == {s[i] : i \in 1..Len(s)}

RECURSIVE Gcd(_, _)
Gcd(a, b) == IF b = 0 THEN a ELSE Gcd(b, a % b)

Abs(x) == IF x < 0 THEN -x ELSE x

\* The exact quotient n / d of two integers, d > 0, as a reduced fraction.
Rat(n, d) ==
    LET g == Gcd(Abs(n), d) IN [k |-> "rat", n |-> n \div g, d |-> d \div g]

\* --------------------------------------------------------------- calendar

IsLeap(y) == (y % 4 = 0 /\ y % 100 # 0) \/ y % 400 = 0

DaysInMonth(y, m) ==
    CASE m \in {1, 3, 5, 7, 8, 10, 12} -> 31
      [] m \in {4, 6, 9, 11} -> 30
      [] OTHER -> IF IsLeap(y) THEN 29 ELSE 28

RECURSIVE DaysBeforeMonth(_, _)
DaysBeforeMonth(y, m) ==
    IF m = 1 THEN 0 ELSE DaysBeforeMonth(y, m - 1) + DaysInMonth(y, m - 1)

\* tm_yday: the day of the year, from 0.
YearDay(y, m, d) == DaysBeforeMonth(y, m) + d - 1

\* Days from 2024-01-01, a Monday, for the years from 2024 on.
RECURSIVE DaysBeforeYear(_)
DaysBeforeYear(y) ==
    IF y <= 2024 THEN 0
    ELSE DaysBeforeYear(y - 1) + (IF IsLeap(y - 1) THEN 366 ELSE 365)

Ordinal(y, m, d) == DaysBeforeYear(y) + YearDay(y, m, d)

\* Timestamp.weekday(): Monday is 0.
WeekdayIndex(y, m, d) == Ordinal(y, m, d) % 7

\* Series.dt.day_name(): the English name of the day.
DayName(y, m, d) ==
    <<"Monday", "Tuesday", "Wednesday", "Thursday", "Friday", "Saturday", "Sunday">>
        [WeekdayIndex(y, m, d) + 1]

\* strftime %U: the week of the year with Sunday as the first day of the week;
\* the days before the first Sunday are in week 0.
WeekOfYearU(y, m, d) ==
    LET wday == (WeekdayIndex(y, m, d) + 1) % 7   \* tm_wday: Sunday is 0
    IN  (YearDay(y, m, d) + 7 - wday) \div 7

QuarterOf(m) == ((m - 1) \div 3) + 1

\* ------------------------------------------------------------ conversions

\* pd.to_datetime(..., errors='coerce') on one cell of an object column: a text
\* that is a calendar date becomes a Timestamp, a Timestamp stays, anything
\* else becomes NaT.
ParseDateCell(c) ==
    CASE c.k = "datetext" ->
           IF /\ c.m \in 1..12
              /\ c.d \in 1..DaysInMonth(c.y, c.m)
              /\ c.h \in 0..23
           THEN Timestamp(c.y, c.m, c.d, c.h)
           ELSE NaT
      [] c.k = "Timestamp" -> c
      [] OTHER -> NaT

\* pd.to_datetime(series, errors='coerce'): datetime64 data is returned as it
\* is; Period data is refused by pandas (TypeError), which errors='coerce'
\* turns into NaT for every element; object data is parsed cell by cell.
to_datetime(s) ==
    CASE s.dtype = "datetime64" -> s
      [] s.dtype = "period" -> Series("datetime64", [i \in 1..Len(s.vals) |-> NaT])
      [] OTHER -> Series("datetime64", [i \in 1..Len(s.vals) |-> ParseDateCell(s.vals[i])])

\* pd.to_numeric(..., errors='coerce') on one cell.
ParseNumCell(c) ==
    CASE c.k = "num" -> c
      [] c.k = "numtext" -> Num(c.v)
      [] OTHER -> NaN

to_numeric(s) == Series("float64", [i \in 1..Len(s.vals) |-> ParseNumCell(s.vals[i])])

\* The .dt accessors, one cell at a time; NaT gives the null of the result.
DtYear(c) == IF c.k = "Timestamp" THEN Num(c.y) ELSE NaN
DtMonth(c) == IF c.k = "Timestamp" THEN Num(c.m) ELSE NaN
DtDate(c) == IF c.k = "Timestamp" THEN Date(c.y, c.m, c.d) ELSE NaT
DtDayName(c) == IF c.k = "Timestamp" THEN Str(DayName(c.y, c.m, c.d)) ELSE NaN
DtStrftimeYW(c) ==
    IF c.k = "Timestamp" THEN WeekLabel(c.y, WeekOfYearU(c.y, c.m, c.d)) ELSE NaN
DtToPeriodQ(c) == IF c.k = "Timestamp" THEN Period(c.y, QuarterOf(c.m)) ELSE NaT

\* ------------------------------------------------------------- DataFrames

VARIABLES
    DATE_COL,       \* the column names the selectboxes set (module globals)
    INVOICE_COL,
    PRODUCT_COL,
    QUANTITY_COL,
    CATEGORY_COL,
    session_df,     \* st.session_state.df, the caller's table
    pc,             \* where the "Generar Reporte" handler stands
    df_processed,   \* the handler's local df_processed
    analyses,       \* the handler's local analyses
    writer,         \* the sheets written to the ExcelWriter so far, in order
    excel_bytes,    \* what export_analysis_to_excel returned to the handler
    error,          \* the exception that left the handler, if any
    series,         \* calculate_statistics: its argument
    stats,          \* calculate_statistics: its result
    outs,           \* the results of applying an operation again and again
    uploaded_file,       \* the file in the st.file_uploader widget
    selected_sheet,      \* the value of the "Seleccionar hoja" selectbox
    sheet_names,         \* st.session_state.sheet_names
    uploaded_file_name,  \* st.session_state.uploaded_file_name
    current_sheet,       \* st.session_state.current_sheet
    shown,               \* whether the last script run showed the column selectors
    main,           \* launcher: where the main thread stands in launch_streamlit
    opener,         \* launcher: where the browser-opener thread stands
    attempt,        \* launcher: wait_for_server's loop variable
    server,         \* launcher: the Streamlit process
    responded,      \* launcher: whether urlopen(url) has returned a response
    opened          \* launcher: how many times webbrowser.open(url) was called

sessionVars ==
    <<uploaded_file, selected_sheet, sheet_names, uploaded_file_name, current_sheet, shown>>

launcherVars == <<main, opener, attempt, server, responded, opened>>

vars ==
    <<DATE_COL, INVOICE_COL, PRODUCT_COL, QUANTITY_COL, CATEGORY_COL, session_df,
      pc, df_processed, analyses, writer, excel_bytes, error, series, stats, outs,
      sessionVars, launcherVars>>

\* Python's None, and a local that is not bound yet.
None == [k |-> "None"]

\* Python's None where the other values are names or lists of names.
NoFile == ""
NoSheet == ""
NoSheets == <<>>

\* The session of a script run that shows the selectors on an uploaded CSV file.
InitUploaded ==
    /\ uploaded_file = "orders.csv"
    /\ selected_sheet = NoSheet
    /\ sheet_names = NoSheets
    /\ uploaded_file_name = "orders.csv"
    /\ current_sheet = NoSheet
    /\ shown = TRUE

\* The launcher before launch_streamlit is called.
InitNotLaunched ==
    /\ main = "start"
    /\ opener = "unstarted"
    /\ attempt = 0
    /\ server = "absent"
    /\ responded = FALSE
    /\ opened = 0

\* df[c] = s
SetCol(df, c, s) == [x \in (DOMAIN df) \cup {c} |-> IF x = c THEN s ELSE df[x]]

\* len(df)
NRows(df) == Len(df[CHOOSE c \in DOMAIN df : TRUE].vals)

\* An exception leaving a function.
Raise(type, what) == [ok |-> FALSE, type |-> type, what |-> what]

\* The statements of load_and_prepare_data after the table is bound to df, in
\* order; each reads and writes df.
PrepareSteps ==
    <<"to_datetime", "to_numeric", "Year", "Month", "Day", "Weekday",
      "Year_Week", "Year_Quarter">>

\* df[DATE_COL].dt.<accessor>: the accessor exists on datetime64 data only.
DtColumn(step, s) ==
    CASE step = "Year" -> Series("float64", [i \in 1..Len(s.vals) |-> DtYear(s.vals[i])])
      [] step = "Month" -> Series("float64", [i \in 1..Len(s.vals) |-> DtMonth(s.vals[i])])
      [] step = "Day" -> Series("object", [i \in 1..Len(s.vals) |-> DtDate(s.vals[i])])
      [] step = "Weekday" -> Series("object", [i \in 1..Len(s.vals) |-> DtDayName(s.vals[i])])
      [] step = "Year_Week" -> Series("object", [i \in 1..Len(s.vals) |-> DtStrftimeYW(s.vals[i])])
      [] step = "Year_Quarter" -> Series("period", [i \in 1..Len(s.vals) |-> DtToPeriodQ(s.vals[i])])

\* One statement of load_and_prepare_data on df: the new df, or the exception.
PrepareStep(step, df) ==
    CASE step = "to_datetime" ->
           IF DATE_COL \notin DOMAIN df THEN Raise("KeyError", DATE_COL)
           ELSE [ok |-> TRUE, df |-> SetCol(df, DATE_COL, to_datetime(df[DATE_COL]))]
      [] step = "to_numeric" ->
           IF QUANTITY_COL \notin DOMAIN df THEN Raise("KeyError", QUANTITY_COL)
           ELSE [ok |-> TRUE,
                 df |-> SetCol(df, QUANTITY_COL, to_numeric(df[QUANTITY_COL]))]
      [] OTHER ->
           IF df[DATE_COL].dtype # "datetime64"
           THEN Raise("AttributeError", ".dt")
           ELSE [ok |-> TRUE, df |-> SetCol(df, step, DtColumn(step, df[DATE_COL]))]

\* The statements from the i-th on: the final df, or the df as the raising
\* statement found it together with the exception.
RECURSIVE RunPrepare(_, _)
RunPrepare(i, df) ==
    IF i > Len(PrepareSteps) THEN [ok |-> TRUE, df |-> df]
    ELSE LET r == PrepareStep(PrepareSteps[i], df)
         IN  IF r.ok THEN RunPrepare(i + 1, r.df)
             ELSE [ok |-> FALSE, type |-> r.type, what |-> r.what, df |-> df]

\* df = data_source: df names the caller's object, and writes to df are writes
\* to the caller's table.
BindSameObject(data_source) == [aliased |-> TRUE, df |-> data_source]

\* df = data_source.copy(): df is a new object holding the same values.
BindCopy(data_source) == [aliased |-> FALSE, df |-> data_source]

\* load_and_prepare_data(data_source) for an in-memory table.  The result says
\* what was returned or raised, and what the caller's table holds afterwards.
load_and_prepare_data(data_source) ==
    LET b == BindCopy(data_source)
        r == RunPrepare(1, b.df)
        after == IF b.aliased THEN r.df ELSE data_source
    IN  IF r.ok THEN [ok |-> TRUE, df |-> r.df, caller |-> after]
        ELSE [ok |-> FALSE, type |-> r.type, what |-> r.what, caller |-> after]


\* ---------------------------------------------------------------- groupby

\* The strings of the model in Python's string order.
StringsInOrder ==
    <<"BrandA", "BrandB", "Friday", "Monday", "Saturday", "Sunday", "Thursday",
      "Tuesday", "Wednesday">>

StrRank(s) == CHOOSE i \in 1..Len(StringsInOrder) : StringsInOrder[i] = s

\* The place of a cell in the sorted order of the cells of its kind.
SortKey(c) ==
    CASE c.k = "num" -> c.v
      [] c.k = "date" -> Ordinal(c.y, c.m, c.d)
      [] c.k = "Timestamp" -> Ordinal(c.y, c.m, c.d) * 24 + c.h
      [] c.k = "week" -> c.y * 100 + c.w
      [] c.k = "Period" -> c.y * 4 + c.q
      [] c.k = "str" -> StrRank(c.s)

RECURSIVE SortSet(_)
SortSet(S) ==
    IF S = {} THEN <<>>
    ELSE LET m == CHOOSE x \in S : \A y \in S : SortKey(x) <= SortKey(y)
         IN  <<m>> \o SortSet(S \ {m})

\* df.groupby(col): the observed keys in sorted order; null keys are dropped.
GroupKeys(s) == SortSet({c \in Range(s.vals) : ~IsNull(c)})

\* The rows of one group.
GroupRows(s, key) == {i \in 1..Len(s.vals) : s.vals[i] = key}

RECURSIVE SumOver(_, _)
SumOver(f, I) ==
    IF I = {} THEN 0
    ELSE LET i == CHOOSE x \in I : TRUE IN f[i] + SumOver(f, I \ {i})

\* 'sum' over the rows I of a numeric column: nulls are skipped, and a group
\* with no number sums to 0.
SumQuantity(s, I) ==
    Num(SumOver([i \in 1..Len(s.vals) |-> IF IsNull(s.vals[i]) THEN 0 ELSE s.vals[i].v], I))

\* 'count': the cells of the rows I that are not null.
CountNotNull(s, I) == Cardinality({i \in I : ~IsNull(s.vals[i])})

\* The distinct values of the rows of the group.
GroupSizeDistinct(s, I) == Cardinality({s.vals[i] : i \in I})

\* groupby(...).size(): every row of the group counts.
GroupSize(s, I) == Cardinality(I)

\* 'nunique': the distinct values of the rows I, nulls left out.
NUnique(s, I) == Cardinality({s.vals[i] : i \in {j \in I : ~IsNull(s.vals[j])}})

\* Lines_Total // Invoices_Unique
FloorDivide(n, d) == IF d = 0 THEN Inf ELSE Rat(n \div d, 1)

\* Lines_Total / Invoices_Unique in float arithmetic: a positive number over 0
\* is inf.
Divide(n, d) == IF d = 0 THEN Inf ELSE Rat(n, d)

analyze_by_period(df, period_col) ==
    IF period_col \notin DOMAIN df THEN Raise("KeyError", period_col)
    ELSE IF QUANTITY_COL \notin DOMAIN df THEN Raise("KeyError", QUANTITY_COL)
    ELSE IF INVOICE_COL \notin DOMAIN df THEN Raise("KeyError", INVOICE_COL)
    ELSE
      LET keys == GroupKeys(df[period_col])
          Row(key) ==
              LET I == GroupRows(df[period_col], key)
                  lines == GroupSize(df[period_col], I)
                  invoices == NUnique(df[INVOICE_COL], I)
              IN  [Period_Type |-> period_col,
                   Period |-> key,
                   Lines_Total |-> lines,
                   Total_Quantity |-> SumQuantity(df[QUANTITY_COL], I),
                   Invoices_Unique |-> invoices,
                   Avg_Lines_per_Invoice |-> Divide(lines, invoices)]
      IN  [ok |-> TRUE, table |-> [i \in 1..Len(keys) |-> Row(keys[i])]]

\* ------------------------------------------------------------- statistics

\* Ascending insertion sort of a sequence of integers.
RECURSIVE InsertSorted(_, _)
InsertSorted(x, s) ==
    IF s = <<>> THEN <<x>>
    ELSE IF x < Head(s) THEN <<x>> \o s
    ELSE <<Head(s)>> \o InsertSorted(x, Tail(s))

RECURSIVE SortInts(_)
SortInts(s) == IF s = <<>> THEN <<>> ELSE InsertSorted(Head(s), SortInts(Tail(s)))

\* Series.mean() of integers: NaN when there is none.
Mean(v) == IF v = <<>> THEN NaN ELSE Rat(SumSeq(v), Len(v))

Max(v) == IF v = <<>> THEN NaN ELSE Num(SortInts(v)[Len(v)])

Min(v) == IF v = <<>> THEN NaN ELSE Num(SortInts(v)[1])

\* Series.quantile(pn / pd): linear interpolation between the order statistics
\* around position (n - 1) * pn / pd; NaN when there is none.
Quantile(v, pn, pd) ==
    IF v = <<>> THEN NaN
    ELSE LET sorted == SortInts(v)
             pos == (Len(v) - 1) * pn
             lo == (pos \div pd) + 1
             rem == pos % pd
             hi == IF rem = 0 THEN lo ELSE lo + 1
         IN  Rat(sorted[lo] * pd + (sorted[hi] - sorted[lo]) * rem, pd)

\* The integer nearest to n / d, d > 0, ties to the even one.
RoundHalfEven(n, d) ==
    LET q == n \div d
        r == n % d
    IN  IF 2 * r < d THEN q
        ELSE IF 2 * r > d THEN q + 1
        ELSE IF q % 2 = 0 THEN q ELSE q + 1

Pow10(e) == IF e = 0 THEN 1 ELSE IF e = 1 THEN 10 ELSE 100

\* x rounded to e decimals, as the number of 10^-e units it holds.
Scaled(x, e) ==
    IF x.k = "num" THEN x.v * Pow10(e) ELSE RoundHalfEven(x.n * Pow10(e), x.d)

\* f"{x:.<e>f}": the text of x with e decimals, 'nan' for NaN.
Format(x, e) ==
    IF x.k = "NaN" THEN Str("nan") ELSE [k |-> "text", units |-> Scaled(x, e), decimals |-> e]

\* .round(e) of a number: the number rounded to e decimals, NaN kept.
Round(x, e) ==
    IF x.k \in {"NaN", "NaT", "num"} THEN x ELSE Rat(Scaled(x, e), Pow10(e))


\* series.dropna(), then the numbers of the cells.
DropNa(s) == SelectSeq(s, LAMBDA c : ~IsNull(c))

Values(s) == [i \in 1..Len(s) |-> s[i].v]

\* Series.std(): the sample standard deviation, kept as the square root of
\* the exact sample variance.
Std(v) ==
    LET n == Len(v)
        sq == [i \in 1..n |-> v[i] * v[i]]
    IN  [k |-> "sqrt", of |-> Rat(n * SumSeq(sq) - SumSeq(v) * SumSeq(v), n * (n - 1))]

StatNames ==
    {"count", "min", "max", "mean", "median", "std", "p25", "p75", "p90", "p95"}

\* The statistics of the values v of the cleaned series, v not empty; lone is
\* the std of a single value.
StatWith(stat, v, lone) ==
    CASE stat = "count" -> Num(Len(v))
      [] stat = "min" -> Min(v)
      [] stat = "max" -> Max(v)
      [] stat = "mean" -> Mean(v)
      [] stat = "median" -> Quantile(v, 1, 2)
      [] stat = "std" -> IF Len(v) > 1 THEN Std(v) ELSE lone
      [] stat = "p25" -> Quantile(v, 25, 100)
      [] stat = "p75" -> Quantile(v, 75, 100)
      [] stat = "p90" -> Quantile(v, 90, 100)
      [] stat = "p95" -> Quantile(v, 95, 100)

\* Series.std() of a single value, unguarded.
StatOfUnguarded(stat, v) == StatWith(stat, v, NaN)

\* "clean_series.std() if len(clean_series) > 1 else 0"
StatOf(stat, v) == StatWith(stat, v, Num(0))

\* The value of every key when there is nothing to summarise.
EmptyStat(stat) == NaN

\* calculate_statistics(series, name): a dict keyed by f'{name}_{stat}'.
calculate_statistics(s, name) ==
    IF Len(s) = 0 THEN [key \in {name} \X StatNames |-> EmptyStat(key[2])]
    ELSE LET clean_series == DropNa(s)
         IN  IF Len(clean_series) = 0
             THEN [key \in {name} \X StatNames |-> EmptyStat(key[2])]
             ELSE [key \in {name} \X StatNames |-> StatOf(key[2], Values(clean_series))]

\* One column of a result table.
Column(table, field) == [i \in 1..Len(table) |-> table[i][field]]

calculate_daily_statistics(daily_analysis) ==
    LET lines_totals == Column(daily_analysis, "Lines_Total")
        quantity_totals == Values(Column(daily_analysis, "Total_Quantity"))
    IN  << [Metric |-> "Days Analyzed", Value |-> Num(Len(daily_analysis))],
           [Metric |-> "Avg Lines per Day", Value |-> Format(Mean(lines_totals), 1)],
           [Metric |-> "Max Lines per Day", Value |-> Format(Max(lines_totals), 0)],
           [Metric |-> "Min Lines per Day", Value |-> Format(Min(lines_totals), 0)],
           [Metric |-> "Lines 75th Percentile",
            Value |-> Format(Quantile(lines_totals, 75, 100), 0)],
           [Metric |-> "Lines 90th Percentile",
            Value |-> Format(Quantile(lines_totals, 90, 100), 0)],
           [Metric |-> "Avg Units per Day", Value |-> Format(Mean(quantity_totals), 1)],
           [Metric |-> "Max Units per Day", Value |-> Format(Max(quantity_totals), 0)],
           [Metric |-> "Min Units per Day", Value |-> Format(Min(quantity_totals), 0)],
           [Metric |-> "Units 75th Percentile",
            Value |-> Format(Quantile(quantity_totals, 75, 100), 0)],
           [Metric |-> "Units 90th Percentile",
            Value |-> Format(Quantile(quantity_totals, 90, 100), 0)] >>

\* df.groupby([a, 'Day'])[QUANTITY_COL].sum() for one value of column a: the
\* quantity sums of the days observed with it, in the order of the days.  A
\* row with a null in either key is in no group.
DailySums(df, a, value) ==
    LET with == {i \in 1..NRows(df) : df[a].vals[i] = value /\ ~IsNull(df["Day"].vals[i])}
        days == SortSet({df["Day"].vals[i] : i \in with})
    IN  [j \in 1..Len(days) |->
            SumQuantity(df[QUANTITY_COL], {i \in with : df["Day"].vals[i] = days[j]}).v]

\* The loop of calculate_weekday_statistics from the i-th weekday on.
RECURSIVE WeekdayRows(_, _, _)
WeekdayRows(df, order, i) ==
    IF i > Len(order) THEN <<>>
    ELSE LET quantities == DailySums(df, "Weekday", Str(order[i]))
             row == [Weekday |-> order[i],
                     Avg_Units |-> Format(Mean(quantities), 1),
                     P90_Units |-> Format(Quantile(quantities, 90, 100), 0),
                     Days_Count |-> Len(quantities)]
         IN  (IF Len(quantities) > 0 THEN <<row>> ELSE <<>>)
                 \o WeekdayRows(df, order, i + 1)

weekdays_order ==
    <<"Monday", "Tuesday", "Wednesday", "Thursday", "Friday", "Saturday", "Sunday">>

\* The weekdays in the order groupby leaves them in.
calculate_weekday_statistics_in_groupby_order(df) ==
    WeekdayRows(df, <<"Friday", "Monday", "Saturday", "Sunday", "Thursday", "Tuesday",
                      "Wednesday">>, 1)

calculate_weekday_statistics(df) == WeekdayRows(df, weekdays_order, 1)

analyze_category_by_day(df, category_col) ==
    IF category_col \notin DOMAIN df THEN Raise("KeyError", category_col)
    ELSE
      LET cats == GroupKeys(df[category_col])
          Row(c) ==
              LET sums == DailySums(df, category_col, c)
              IN  [Category |-> c, Avg_Units_per_Day |-> Round(Mean(sums), 1)]
          \* a category seen only on rows without a day has no (category, day) group
          seen == SelectSeq(cats, LAMBDA c : DailySums(df, category_col, c) # <<>>)
      IN  [ok |-> TRUE, table |-> [i \in 1..Len(seen) |-> Row(seen[i])]]

\* min() / max() of a column: nulls are skipped; NaT when nothing is left.
ColMin(s) ==
    LET keys == GroupKeys(s) IN IF keys = <<>> THEN NaT ELSE keys[1]

ColMax(s) ==
    LET keys == GroupKeys(s) IN IF keys = <<>> THEN NaT ELSE keys[Len(keys)]


\* ------------------------------------------------- comprehensive_analysis

\* Python's None as a column name: it is falsy and names no column.
NoColumn == ""

\* "if category_col": the membership test left out.
CategoryNamed(df, category_col) == category_col # NoColumn

\* "if category_col and category_col in df.columns"
CategoryGiven(df, category_col) == category_col # NoColumn /\ category_col \in DOMAIN df

\* The five period analyses, in the order comprehensive_analysis runs them.
PeriodAnalyses ==
    << <<"Daily", "Day">>, <<"Weekly", "Year_Week">>, <<"Monthly", "Month">>,
       <<"Weekday", "Weekday">>, <<"Quarterly", "Year_Quarter">> >>

\* The first exception among the results rs, or none.
FirstError(rs) ==
    IF \A i \in 1..Len(rs) : rs[i].ok THEN [ok |-> TRUE]
    ELSE LET i == CHOOSE j \in 1..Len(rs) : ~rs[j].ok /\ \A h \in 1..(j - 1) : rs[h].ok
         IN  Raise(rs[i].type, rs[i].what)

\* The dataset overview that comprehensive_analysis prints first: it reads the
\* four columns, and calls .date() on the least and the greatest date.
Overview(df) ==
    IF DATE_COL \notin DOMAIN df THEN Raise("KeyError", DATE_COL)
    ELSE IF ColMin(df[DATE_COL]).k \notin {"Timestamp", "NaT"}
    THEN Raise("AttributeError", "date")
    ELSE IF INVOICE_COL \notin DOMAIN df THEN Raise("KeyError", INVOICE_COL)
    ELSE IF PRODUCT_COL \notin DOMAIN df THEN Raise("KeyError", PRODUCT_COL)
    ELSE IF QUANTITY_COL \notin DOMAIN df THEN Raise("KeyError", QUANTITY_COL)
    ELSE [ok |-> TRUE]

comprehensive_analysis(df, category_col) ==
    LET head == Overview(df)
        periods == [i \in 1..Len(PeriodAnalyses) |-> analyze_by_period(df, PeriodAnalyses[i][2])]
        category == IF CategoryGiven(df, category_col)
                    THEN analyze_category_by_day(df, category_col)
                    ELSE [ok |-> TRUE, table |-> <<>>]
        failed == FirstError(<<head>> \o periods \o <<category>>)
        keys == {PeriodAnalyses[i][1] : i \in 1..Len(PeriodAnalyses)}
                    \cup {"Daily_Statistics", "Weekday_Statistics"}
                    \cup (IF CategoryGiven(df, category_col)
                          THEN {"Category_Analysis"} ELSE {})
        Table(key) ==
            CASE key = "Daily_Statistics" -> calculate_daily_statistics(periods[1].table)
              [] key = "Weekday_Statistics" -> calculate_weekday_statistics(df)
              [] key = "Category_Analysis" -> category.table
              [] OTHER ->
                   periods[CHOOSE i \in 1..Len(PeriodAnalyses) : PeriodAnalyses[i][1] = key].table
    IN  IF ~failed.ok THEN failed
        ELSE [ok |-> TRUE, analyses |-> [key \in keys |-> Table(key)]]

\* ----------------------------------------------- export_analysis_to_excel

\* Ascending sort of rows by a numeric field that keeps rows of equal value in
\* their order (the insertion sort numpy runs on short arrays).
RECURSIVE InsertByField(_, _, _)
InsertByField(x, s, field) ==
    IF s = <<>> THEN <<x>>
    ELSE IF x[field].v < Head(s)[field].v THEN <<x>> \o s
    ELSE <<Head(s)>> \o InsertByField(x, Tail(s), field)

RECURSIVE SortAscending(_, _)
SortAscending(s, field) ==
    IF s = <<>> THEN <<>>
    ELSE InsertByField(s[Len(s)], SortAscending(SubSeq(s, 1, Len(s) - 1), field), field)

\* sort_values(field): ascending.
SortDefault(s, field) == SortAscending(s, field)

\* sort_values(field, ascending=False): pandas sorts the reversed rows in
\* ascending order and reverses the outcome.
SortDescending(s, field) == Reverse(SortAscending(Reverse(s), field))

\* 'mean' of the rows I of a numeric column: nulls are skipped, NaN if none is left.
MeanQuantity(s, I) ==
    LET n == CountNotNull(s, I)
    IN  IF n = 0 THEN NaN ELSE Rat(SumQuantity(s, I).v, n)

\* df.groupby(PRODUCT_COL).agg(...).round(2), sorted by Total_Quantity.
ProductRollup(df) ==
    LET keys == GroupKeys(df[PRODUCT_COL])
        Row(key) ==
            LET I == GroupRows(df[PRODUCT_COL], key)
            IN  [Key |-> key,
                 Total_Quantity |-> Round(SumQuantity(df[QUANTITY_COL], I), 2),
                 Total_Lines |-> CountNotNull(df[QUANTITY_COL], I),
                 Avg_Quantity_per_Line |-> Round(MeanQuantity(df[QUANTITY_COL], I), 2),
                 Unique_Invoices |-> NUnique(df[INVOICE_COL], I)]
    IN  SortDescending([i \in 1..Len(keys) |-> Row(keys[i])], "Total_Quantity")

\* 'min' / 'max' of the rows I of a column.
MinOver(s, I) == ColMin(Series(s.dtype, SortSet({s.vals[i] : i \in {j \in I : ~IsNull(s.vals[j])}})))
MaxOver(s, I) == ColMax(Series(s.dtype, SortSet({s.vals[i] : i \in {j \in I : ~IsNull(s.vals[j])}})))

\* df.groupby(INVOICE_COL).agg(...).round(2), sorted by Total_Quantity.
InvoiceRollup(df) ==
    LET keys == GroupKeys(df[INVOICE_COL])
        Row(key) ==
            LET I == GroupRows(df[INVOICE_COL], key)
            IN  [Key |-> key,
                 Total_Quantity |-> Round(SumQuantity(df[QUANTITY_COL], I), 2),
                 Total_Lines |-> CountNotNull(df[QUANTITY_COL], I),
                 Avg_Quantity_per_Line |-> Round(MeanQuantity(df[QUANTITY_COL], I), 2),
                 Unique_Products |-> NUnique(df[PRODUCT_COL], I),
                 First_Date |-> MinOver(df[DATE_COL], I),
                 Last_Date |-> MaxOver(df[DATE_COL], I)]
    IN  SortDescending([i \in 1..Len(keys) |-> Row(keys[i])], "Total_Quantity")


\* idxmax() / idxmin() of Lines_Total: the first row holding the extreme.
IdxMax(table) ==
    CHOOSE i \in 1..Len(table) :
        /\ \A j \in 1..Len(table) : table[j].Lines_Total <= table[i].Lines_Total
        /\ \A j \in 1..(i - 1) : table[j].Lines_Total < table[i].Lines_Total

IdxMin(table) ==
    CHOOSE i \in 1..Len(table) :
        /\ \A j \in 1..Len(table) : table[j].Lines_Total >= table[i].Lines_Total
        /\ \A j \in 1..(i - 1) : table[j].Lines_Total > table[i].Lines_Total

\* (max - min).days: the whole days between two Timestamps.
DaysBetween(lo, hi) == (SortKey(hi) - SortKey(lo)) \div 24

\* The numbers of the cells of a column that are not null.
NotNullValues(s) == Values(DropNa(s.vals))

AllRows(df) == 1..NRows(df)

\* The rows of the Summary sheet; t is what datetime.now() reads.  The values
\* are built in the order of the list, and the first that cannot be built
\* raises.
SummaryRows(df, daily, t) ==
    IF DATE_COL \notin DOMAIN df THEN Raise("KeyError", DATE_COL)
    ELSE IF ColMin(df[DATE_COL]).k = "NaT" THEN Raise("ValueError", "strftime")
    ELSE IF ColMin(df[DATE_COL]).k # "Timestamp" THEN Raise("AttributeError", "days")
    ELSE IF INVOICE_COL \notin DOMAIN df THEN Raise("KeyError", INVOICE_COL)
    ELSE IF PRODUCT_COL \notin DOMAIN df THEN Raise("KeyError", PRODUCT_COL)
    ELSE IF QUANTITY_COL \notin DOMAIN df THEN Raise("KeyError", QUANTITY_COL)
    ELSE IF daily = <<>> THEN Raise("ValueError", "idxmax")
    ELSE
      LET lo == ColMin(df[DATE_COL])
          hi == ColMax(df[DATE_COL])
          invoices == GroupKeys(df[INVOICE_COL])
          sizes == [i \in 1..Len(invoices) |->
                       GroupSize(df[INVOICE_COL], GroupRows(df[INVOICE_COL], invoices[i]))]
      IN  [ok |-> TRUE,
           rows |->
             << [Metric |-> "Total Lines (Orders)", Value |-> Format(Num(NRows(df)), 0)],
                [Metric |-> "Date Range Start", Value |-> DtDate(lo)],
                [Metric |-> "Date Range End", Value |-> DtDate(hi)],
                [Metric |-> "Total Days Analyzed",
                 Value |-> Format(Num(DaysBetween(lo, hi) + 1), 0)],
                [Metric |-> "Unique Invoices",
                 Value |-> Format(Num(NUnique(df[INVOICE_COL], AllRows(df))), 0)],
                [Metric |-> "Unique Products",
                 Value |-> Format(Num(NUnique(df[PRODUCT_COL], AllRows(df))), 0)],
                [Metric |-> "Total Quantity (Units)",
                 Value |-> Format(SumQuantity(df[QUANTITY_COL], AllRows(df)), 0)],
                [Metric |-> "Average Quantity per Line",
                 Value |-> Format(Mean(NotNullValues(df[QUANTITY_COL])), 2)],
                [Metric |-> "Average Lines per Invoice", Value |-> Format(Mean(sizes), 2)],
                [Metric |-> "Most Active Day", Value |-> daily[IdxMax(daily)].Period],
                [Metric |-> "Least Active Day", Value |-> daily[IdxMin(daily)].Period],
                [Metric |-> "Generated On", Value |-> Num(t)] >>]

\* The sheets of the analyses in the order of their keys.
analysis_sheets_by_key(an) ==
    (IF "Category_Analysis" \in DOMAIN an
     THEN << <<"Category_Analysis", "Category Analysis">> >> ELSE <<>>)
    \o << <<"Daily", "Daily Analysis">>,
          <<"Daily_Statistics", "Daily Statistics Summary">>,
          <<"Monthly", "Monthly Analysis">>,
          <<"Quarterly", "Quarterly Analysis">>,
          <<"Weekday", "Weekday Analysis">>,
          <<"Weekday_Statistics", "Weekday Statistics Summary">>,
          <<"Weekly", "Weekly Analysis">> >>

\* analysis_sheets: the keys of analyses and the sheet each is written to, in
\* the order of the dict; the category analysis is added last when present.
analysis_sheets(an) ==
    << <<"Daily", "Daily Analysis">>,
       <<"Weekly", "Weekly Analysis">>,
       <<"Monthly", "Monthly Analysis">>,
       <<"Weekday", "Weekday Analysis">>,
       <<"Quarterly", "Quarterly Analysis">>,
       <<"Daily_Statistics", "Daily Statistics Summary">>,
       <<"Weekday_Statistics", "Weekday Statistics Summary">> >>
    \o (IF "Category_Analysis" \in DOMAIN an
        THEN << <<"Category_Analysis", "Category Analysis">> >> ELSE <<>>)

\* The sheets export_analysis_to_excel writes, in the order it writes them.
SheetPlan(an) ==
    <<"Summary">>
    \o [i \in 1..Len(analysis_sheets(an)) |-> analysis_sheets(an)[i][2]]
    \o <<"Product Analysis", "Invoice Analysis", "Raw Data Sample">>

\* The column format of an analysis sheet: names holding 'Period' are dates on
\* the Daily sheet, names holding 'Count', 'Total' or 'Unique' are integers,
\* the others are numbers.
ColumnFormat(analysis_key, col_name) ==
    IF col_name \in {"Period_Type", "Period"} /\ analysis_key = "Daily" THEN "date_format"
    ELSE IF col_name \in {"Lines_Total", "Total_Quantity", "Invoices_Unique", "Days_Count"}
    THEN "integer_format"
    ELSE "number_format"

\* df_to_export.columns: the statistics of the weekdays are built from a list
\* of rows, and have no column when the list is empty.
TableColumns(analysis_key, table) ==
    CASE analysis_key = "Daily_Statistics" -> {"Metric", "Value"}
      [] analysis_key = "Weekday_Statistics" ->
           IF table = <<>> THEN {} ELSE {"Weekday", "Avg_Units", "P90_Units", "Days_Count"}
      [] analysis_key = "Category_Analysis" -> {"Category", "Avg_Units_per_Day"}
      [] OTHER ->
           {"Period_Type", "Period", "Lines_Total", "Total_Quantity", "Invoices_Unique",
            "Avg_Lines_per_Invoice"}

\* How many rows of the table the 'Raw Data Sample' sheet shows.
RawSampleRows == 1000

\* df.head(n)
HeadFrame(df, n) ==
    [c \in DOMAIN df |->
        Series(df[c].dtype, SubSeq(df[c].vals, 1, IF NRows(df) < n THEN NRows(df) ELSE n))]

\* The content of the sheet called name, or the exception building it raises.
BuildSheet(name, df, an, t) ==
    CASE name = "Summary" ->
           LET r == SummaryRows(df, an["Daily"], t)
           IN  IF r.ok THEN [ok |-> TRUE, sheet |-> [name |-> name, rows |-> r.rows]] ELSE r
      [] name = "Product Analysis" ->
           IF PRODUCT_COL \notin DOMAIN df THEN Raise("KeyError", PRODUCT_COL)
           ELSE [ok |-> TRUE, sheet |-> [name |-> name, rows |-> ProductRollup(df)]]
      [] name = "Invoice Analysis" ->
           IF INVOICE_COL \notin DOMAIN df THEN Raise("KeyError", INVOICE_COL)
           ELSE [ok |-> TRUE, sheet |-> [name |-> name, rows |-> InvoiceRollup(df)]]
      [] name = "Raw Data Sample" ->
           [ok |-> TRUE, sheet |-> [name |-> name, rows |-> HeadFrame(df, RawSampleRows)]]
      [] OTHER ->
           LET sheets == analysis_sheets(an)
               key == sheets[CHOOSE i \in 1..Len(sheets) : sheets[i][2] = name][1]
               table == an[key]
               cols == TableColumns(key, table)
           IN  [ok |-> TRUE,
                sheet |-> [name |-> name, rows |-> table,
                           formats |-> [c \in cols |-> ColumnFormat(key, c)]]]

Bytes(output) == [k |-> "bytes", workbook |-> output]

\* The exception swallowed and the closed buffer returned.
ReturnedPartial(output) == Bytes(output)

\* What the caller of export_analysis_to_excel holds when an exception leaves
\* the with block: the function does not return, and the buffer is a local.
ReturnedOnRaise(output) == None

\* output.getvalue() after the with block has closed the writer.
ReturnedOnSuccess(output) == Bytes(output)


\* ----------------------------------------------------------------- inputs

\* The most rows an uploaded table has.
MaxRows == 3

\* The rows uploaded tables are made of: lines of two invoices and two
\* products on a Monday (twice, at two times of the day), on the Sunday after
\* it and on a Friday of the next quarter, with dates and quantities that do
\* not parse, a date that is no calendar date, and missing identifiers.
RowPool ==
    { [date |-> DateText(2024, 1, 1, 0), invoice |-> Num(101), product |-> Num(1),
       quantity |-> Num(2), brand |-> Str("BrandA")],
      [date |-> DateText(2024, 1, 1, 12), invoice |-> Num(102), product |-> Num(2),
       quantity |-> Num(1), brand |-> Str("BrandB")],
      [date |-> DateText(2024, 1, 7, 0), invoice |-> Num(101), product |-> Num(2),
       quantity |-> NumText(3), brand |-> Str("BrandB")],
      [date |-> Junk, invoice |-> Num(102), product |-> Num(1),
       quantity |-> Num(2), brand |-> Str("BrandA")],
      [date |-> DateText(2024, 4, 5, 0), invoice |-> NaN, product |-> Num(1),
       quantity |-> Junk, brand |-> Str("BrandA")],
      [date |-> DateText(2024, 2, 30, 0), invoice |-> Num(101), product |-> NaN,
       quantity |-> Num(1), brand |-> NaN] }

RECURSIVE SeqsUpTo(_, _)
SeqsUpTo(S, n) ==
    IF n = 0 THEN {<<>>}
    ELSE LET shorter == SeqsUpTo(S, n - 1)
         IN  shorter \cup {Append(s, x) : s \in {t \in shorter : Len(t) = n - 1}, x \in S}

Tables == SeqsUpTo(RowPool, MaxRows)

\* The DataFrame pandas reads from a file whose date column is called header.
Frame(rows, header) ==
    [c \in {header, "invoice", "product", "quantity", "brand"} |->
        Series("object",
               [i \in 1..Len(rows) |->
                   CASE c = "invoice" -> rows[i].invoice
                     [] c = "product" -> rows[i].product
                     [] c = "quantity" -> rows[i].quantity
                     [] c = "brand" -> rows[i].brand
                     [] OTHER -> rows[i].date])]

\* The names of the date column of the file, and the selections made on it:
\* the columns as they are meant, with and without a category, a category
\* that names no column, each required name naming no column, and a date
\* column that carries the name of a derived column.
Selections ==
    LET Pick(header, date, invoice, product, quantity, category) ==
            [header |-> header, date |-> date, invoice |-> invoice,
             product |-> product, quantity |-> quantity, category |-> category]
    IN  { Pick("date", "date", "invoice", "product", "quantity", NoColumn),
          Pick("date", "date", "invoice", "product", "quantity", "brand"),
          Pick("date", "date", "invoice", "product", "quantity", "marca"),
          Pick("date", "fecha", "invoice", "product", "quantity", NoColumn),
          Pick("date", "date", "pedido", "product", "quantity", NoColumn),
          Pick("date", "date", "invoice", "material", "quantity", NoColumn),
          Pick("date", "date", "invoice", "product", "cantidad", NoColumn),
          Pick("Month", "Month", "invoice", "product", "quantity", NoColumn),
          Pick("Year_Quarter", "Year_Quarter", "invoice", "product", "quantity", NoColumn) }

\* What datetime.now() can read.
MaxClock == 2

\* ------------------------------------------------- the report generation

InitSelection ==
    \E rows \in Tables, sel \in Selections :
        /\ session_df = Frame(rows, sel.header)
        /\ DATE_COL = sel.date
        /\ INVOICE_COL = sel.invoice
        /\ PRODUCT_COL = sel.product
        /\ QUANTITY_COL = sel.quantity
        /\ CATEGORY_COL = sel.category

Init ==
    /\ InitSelection
    /\ pc = "idle"
    /\ df_processed = None
    /\ analyses = None
    /\ writer = <<>>
    /\ excel_bytes = None
    /\ error = None
    /\ series = <<>>
    /\ stats = None
    /\ outs = <<>>
    /\ InitUploaded
    /\ InitNotLaunched

Failure(r, at) == [type |-> r.type, what |-> r.what, at |-> at]

\* df_processed = load_and_prepare_data(st.session_state.df)
Load ==
    /\ pc = "idle"
    /\ LET r == load_and_prepare_data(session_df)
       IN  /\ session_df' = r.caller
           /\ IF r.ok
              THEN pc' = "loaded" /\ df_processed' = r.df /\ error' = error
              ELSE /\ pc' = "error"
                   /\ df_processed' = df_processed
                   /\ error' = Failure(r, "load_and_prepare_data")
    /\ UNCHANGED <<sessionVars, launcherVars>>
    /\ UNCHANGED <<DATE_COL, INVOICE_COL, PRODUCT_COL, QUANTITY_COL, CATEGORY_COL,
                   analyses, writer, excel_bytes, series, stats, outs>>

\* analyses = comprehensive_analysis(df_processed, CATEGORY_COL); on its
\* return export_analysis_to_excel opens the writer on an empty buffer.
Analyse ==
    /\ pc = "loaded"
    /\ LET r == comprehensive_analysis(df_processed, CATEGORY_COL)
       IN  IF r.ok
           THEN pc' = "export" /\ analyses' = r.analyses /\ error' = error
           ELSE /\ pc' = "error"
                /\ analyses' = analyses
                /\ error' = Failure(r, "comprehensive_analysis")
    /\ UNCHANGED <<sessionVars, launcherVars>>
    /\ UNCHANGED <<DATE_COL, INVOICE_COL, PRODUCT_COL, QUANTITY_COL, CATEGORY_COL,
                   session_df, df_processed, writer, excel_bytes, series, stats, outs>>

\* The next sheet of the plan is built and written; an exception building it
\* leaves export_analysis_to_excel and the handler.
WriteSheet ==
    /\ pc = "export"
    /\ Len(writer) < Len(SheetPlan(analyses))
    /\ \E t \in 1..MaxClock :
         LET r == BuildSheet(SheetPlan(analyses)[Len(writer) + 1], df_processed, analyses, t)
         IN  IF r.ok
             THEN /\ writer' = Append(writer, r.sheet)
                  /\ UNCHANGED <<pc, error, excel_bytes>>
             ELSE /\ pc' = "error"
                  /\ error' = Failure(r, "export_analysis_to_excel")
                  /\ excel_bytes' = ReturnedOnRaise(writer)
                  /\ writer' = writer
    /\ UNCHANGED <<sessionVars, launcherVars>>
    /\ UNCHANGED <<DATE_COL, INVOICE_COL, PRODUCT_COL, QUANTITY_COL, CATEGORY_COL,
                   session_df, df_processed, analyses, series, stats, outs>>

\* to_excel raises on the next sheet of the plan (a value Excel cannot hold,
\* a sheet the library refuses): the exception leaves the with block, which
\* closes the writer, and then the function.
ToExcelRaises ==
    /\ pc = "export"
    /\ Len(writer) < Len(SheetPlan(analyses))
    /\ pc' = "error"
    /\ error' = [type |-> "Exception", what |-> SheetPlan(analyses)[Len(writer) + 1],
                 at |-> "export_analysis_to_excel"]
    /\ excel_bytes' = ReturnedOnRaise(writer)
    /\ UNCHANGED <<sessionVars, launcherVars>>
    /\ UNCHANGED <<DATE_COL, INVOICE_COL, PRODUCT_COL, QUANTITY_COL, CATEGORY_COL,
                   session_df, df_processed, analyses, writer, series, stats, outs>>

\* Every sheet is written: the with block closes the writer and the bytes of
\* the buffer are returned.
ReturnBytes ==
    /\ pc = "export"
    /\ Len(writer) = Len(SheetPlan(analyses))
    /\ pc' = "done"
    /\ excel_bytes' = ReturnedOnSuccess(writer)
    /\ UNCHANGED <<sessionVars, launcherVars>>
    /\ UNCHANGED <<DATE_COL, INVOICE_COL, PRODUCT_COL, QUANTITY_COL, CATEGORY_COL,
                   session_df, df_processed, analyses, writer, error, series, stats, outs>>

\* The script ends; the next press of the button runs the handler again on
\* the session's table, with fresh locals.
Rerun ==
    /\ pc \in {"done", "error"}
    /\ pc' = "idle"
    /\ df_processed' = None
    /\ analyses' = None
    /\ writer' = <<>>
    /\ excel_bytes' = None
    /\ error' = None
    /\ UNCHANGED <<sessionVars, launcherVars>>
    /\ UNCHANGED <<DATE_COL, INVOICE_COL, PRODUCT_COL, QUANTITY_COL, CATEGORY_COL,
                   session_df, series, stats, outs>>

Next == Load \/ Analyse \/ WriteSheet \/ ToExcelRaises \/ ReturnBytes \/ Rerun

Spec == Init /\ [][Next]_vars


\* ------------------------------------------- calculate_statistics, alone

\* The longest series calculate_statistics is given.
MaxSeriesLen == 3

SeriesCells == {Num(1), Num(2), Num(5), NaN}

InitIdle ==
    /\ session_df = Frame(<<>>, "date")
    /\ DATE_COL = "date"
    /\ INVOICE_COL = "invoice"
    /\ PRODUCT_COL = "product"
    /\ QUANTITY_COL = "quantity"
    /\ CATEGORY_COL = NoColumn
    /\ df_processed = None
    /\ analyses = None
    /\ writer = <<>>
    /\ excel_bytes = None
    /\ error = None

InitStats ==
    /\ InitIdle
    /\ pc = "idle"
    /\ series \in SeqsUpTo(SeriesCells, MaxSeriesLen)
    /\ stats = None
    /\ outs = <<>>
    /\ InitUploaded
    /\ InitNotLaunched

\* stats = calculate_statistics(series, 'Quantity')
Calculate ==
    /\ pc = "idle"
    /\ pc' = "done"
    /\ stats' = calculate_statistics(series, "Quantity")
    /\ UNCHANGED <<sessionVars, launcherVars>>
    /\ UNCHANGED <<DATE_COL, INVOICE_COL, PRODUCT_COL, QUANTITY_COL, CATEGORY_COL,
                   session_df, df_processed, analyses, writer, excel_bytes, error,
                   series, outs>>

SpecStats == InitStats /\ [][Calculate]_vars

\* ------------------------------------------ the period deriver, reapplied

\* How many times the period deriver is applied, each time to its own output.
MaxApplications == 2

InitDeriver ==
    /\ InitSelection
    /\ pc = "idle"
    /\ df_processed = None
    /\ analyses = None
    /\ writer = <<>>
    /\ excel_bytes = None
    /\ error = None
    /\ series = <<>>
    /\ stats = None
    /\ outs = <<>>
    /\ InitUploaded
    /\ InitNotLaunched

\* load_and_prepare_data on the uploaded table, then on what it returned.
Derive ==
    /\ Len(outs) < MaxApplications
    /\ IF outs = <<>> THEN TRUE ELSE outs[Len(outs)].ok
    /\ LET r == load_and_prepare_data(IF outs = <<>> THEN session_df ELSE outs[Len(outs)].df)
       IN  outs' = Append(outs, IF r.ok THEN [ok |-> TRUE, df |-> r.df]
                                ELSE [ok |-> FALSE, df |-> None])
    /\ UNCHANGED <<sessionVars, launcherVars>>
    /\ UNCHANGED <<DATE_COL, INVOICE_COL, PRODUCT_COL, QUANTITY_COL, CATEGORY_COL,
                   session_df, pc, df_processed, analyses, writer, excel_bytes, error,
                   series, stats>>

SpecDeriver == InitDeriver /\ [][Derive]_vars


\* --------------------------------- the report generation, a name amiss

\* Selections in which a required name is no column of the uploaded table: a
\* name of no column at all, and the name of a column load_and_prepare_data
\* derives.
MissingSelections ==
    LET Pick(date, invoice, product, quantity) ==
            [header |-> "date", date |-> date, invoice |-> invoice,
             product |-> product, quantity |-> quantity, category |-> NoColumn]
    IN  { Pick("fecha", "invoice", "product", "quantity"),
          Pick("date", "pedido", "product", "quantity"),
          Pick("date", "invoice", "material", "quantity"),
          Pick("date", "invoice", "product", "cantidad"),
          Pick("date", "Year", "product", "quantity"),
          Pick("date", "invoice", "Year", "quantity"),
          Pick("date", "invoice", "product", "Year") }

InitMissing ==
    /\ \E rows \in Tables, sel \in MissingSelections :
        /\ session_df = Frame(rows, sel.header)
        /\ DATE_COL = sel.date
        /\ INVOICE_COL = sel.invoice
        /\ PRODUCT_COL = sel.product
        /\ QUANTITY_COL = sel.quantity
        /\ CATEGORY_COL = sel.category
    /\ pc = "idle"
    /\ df_processed = None
    /\ analyses = None
    /\ writer = <<>>
    /\ excel_bytes = None
    /\ error = None
    /\ series = <<>>
    /\ stats = None
    /\ outs = <<>>
    /\ InitUploaded
    /\ InitNotLaunched

SpecMissing == InitMissing /\ [][Next]_vars


\* ------------------------------------------ report generations, in a row

\* export_analysis_to_excel as a whole, when to_excel raises on no sheet: the
\* sheets of the plan in order, or the first exception building one raises.
export_analysis_to_excel(df, an, t) ==
    LET plan == SheetPlan(an)
        built == [i \in 1..Len(plan) |-> BuildSheet(plan[i], df, an, t)]
        failed == FirstError(built)
    IN  IF ~failed.ok THEN failed
        ELSE [ok |-> TRUE,
              excel_bytes |-> ReturnedOnSuccess([i \in 1..Len(plan) |-> built[i].sheet])]

\* What a press of "Generar Reporte" leaves the user with: the analyses and
\* the bytes of the download button, or the exception.
Outcome(an, bytes, err) == [analyses |-> an, excel_bytes |-> bytes, error |-> err]

\* How many times the button is pressed on the same table and selection.
MaxGenerations == 2

InitGenerations ==
    /\ InitSelection
    /\ pc = "idle"
    /\ df_processed = None
    /\ analyses = None
    /\ writer = <<>>
    /\ excel_bytes = None
    /\ error = None
    /\ series = <<>>
    /\ stats = None
    /\ outs = <<>>
    /\ InitUploaded
    /\ InitNotLaunched

\* One script run with the button pressed, from load_and_prepare_data to the
\* download button, with t what datetime.now() reads; the locals of the run
\* are gone when it ends.
Generate ==
    /\ Len(outs) < MaxGenerations
    /\ \E t \in 1..MaxClock, loaded \in {load_and_prepare_data(session_df)} :
         /\ session_df' = loaded.caller
         /\ IF ~loaded.ok
            THEN outs' = Append(outs, Outcome(None, None,
                                              Failure(loaded, "load_and_prepare_data")))
            ELSE \E analysed \in {comprehensive_analysis(loaded.df, CATEGORY_COL)} :
                   IF ~analysed.ok
                   THEN outs' = Append(outs, Outcome(None, None,
                                           Failure(analysed, "comprehensive_analysis")))
                   ELSE \E exported \in
                            {export_analysis_to_excel(loaded.df, analysed.analyses, t)} :
                          outs' = Append(outs,
                                    IF exported.ok
                                    THEN Outcome(analysed.analyses, exported.excel_bytes, None)
                                    ELSE Outcome(analysed.analyses, ReturnedOnRaise(<<>>),
                                           Failure(exported, "export_analysis_to_excel")))
    /\ UNCHANGED <<sessionVars, launcherVars>>
    /\ UNCHANGED <<DATE_COL, INVOICE_COL, PRODUCT_COL, QUANTITY_COL, CATEGORY_COL,
                   pc, df_processed, analyses, writer, excel_bytes, error, series, stats>>

SpecGenerations == InitGenerations /\ [][Generate]_vars


\* ------------------------------------------------ the session of the page

\* The files the user has at hand; different files carry different names.
Files == {"a.csv", "b.csv", "a.xlsx", "b.xlsx", "c.xls"}

\* uploaded_file.name.endswith(('.xlsx', '.xls'))
IsExcel(name) == name \in {"a.xlsx", "b.xlsx", "c.xls"}

\* pd.ExcelFile(uploaded_file).sheet_names
SheetsOf(name) ==
    CASE name = "a.xlsx" -> <<"S1", "S2">>
      [] name = "b.xlsx" -> <<"S1", "S3">>
      [] name = "c.xls" -> <<"S2", "S1">>

\* The one line of orders a file (a sheet of it) holds: each its own day.
LineOf(name, sheet) ==
    LET d == CASE name = "a.csv" -> 1
               [] name = "b.csv" -> 2
               [] name = "a.xlsx" /\ sheet = "S1" -> 3
               [] name = "a.xlsx" /\ sheet = "S2" -> 4
               [] name = "b.xlsx" /\ sheet = "S1" -> 5
               [] name = "b.xlsx" /\ sheet = "S3" -> 6
               [] name = "c.xls" /\ sheet = "S2" -> 7
               [] name = "c.xls" /\ sheet = "S1" -> 8
    IN  [date |-> DateText(2024, 1, d, 0), invoice |-> Num(101), product |-> Num(1),
         quantity |-> Num(2), brand |-> Str("BrandA")]

\* pd.read_csv(uploaded_file)
read_csv(uploaded_file_) == Frame(<<LineOf(uploaded_file_, NoSheet)>>, "date")

\* pd.ExcelFile(uploaded_file).parse(selected_sheet)
parse(uploaded_file_, sheet) == Frame(<<LineOf(uploaded_file_, sheet)>>, "date")

\* The calls of a script run that can raise on a file (a file that is not
\* what its name says); the run ends at the call that raises.
Raising == {"nothing", "ExcelFile", "read_csv", "parse"}

\* The table of the session kept when a new file comes.
KeepTable(df) == df

\* st.session_state.df = None, for a new file.
ResetTable(df) == None

\* The session state after the block "if st.session_state.uploaded_file_name
\* != uploaded_file.name" for the file in the uploader; done is FALSE when a
\* call raised and the run ended there.
NewFile(st, file, raises) ==
    IF st.uploaded_file_name = file THEN [st EXCEPT !.done = TRUE]
    ELSE LET reset == [st EXCEPT !.df = ResetTable(st.df),
                                 !.sheet_names = NoSheets,
                                 !.uploaded_file_name = file]
         IN  IF IsExcel(file)
             THEN IF raises = "ExcelFile" THEN [reset EXCEPT !.done = FALSE]
                  ELSE [reset EXCEPT !.sheet_names = SheetsOf(file), !.done = TRUE]
             ELSE IF raises = "read_csv" THEN [reset EXCEPT !.done = FALSE]
                  ELSE [reset EXCEPT !.df = read_csv(file), !.done = TRUE]

\* The session state after the block "Handle Excel files" up to the preview,
\* with the sheet the selectbox returns.
ExcelSheet(st, file, sheet, raises) ==
    IF st.sheet_names = NoSheets THEN [st EXCEPT !.shown = FALSE]
    ELSE IF st.df = None \/ st.current_sheet # sheet
    THEN IF raises = "parse" THEN [st EXCEPT !.shown = FALSE, !.selected_sheet = sheet]
         ELSE [st EXCEPT !.df = parse(file, sheet), !.current_sheet = sheet,
                         !.selected_sheet = sheet, !.shown = TRUE]
    ELSE [st EXCEPT !.selected_sheet = sheet, !.shown = TRUE]

\* One run of the script with file in the uploader, the options[pick] of the
\* sheet selectbox selected, and no button pressed.
ScriptRun(st, file, pick, raises) ==
    IF file = NoFile THEN [st EXCEPT !.shown = FALSE, !.selected_sheet = NoSheet]
    ELSE LET read == NewFile([st EXCEPT !.selected_sheet = NoSheet], file, raises)
         IN  IF ~read.done THEN [read EXCEPT !.shown = FALSE]
             ELSE IF IsExcel(file)
             THEN ExcelSheet(read, file,
                             IF read.sheet_names = NoSheets THEN NoSheet
                             ELSE read.sheet_names[pick], raises)
             ELSE [read EXCEPT !.shown = (read.df # None)]

\* The session of a browser tab that has just opened the page.
InitSession ==
    /\ session_df = None
    /\ uploaded_file = NoFile
    /\ selected_sheet = NoSheet
    /\ sheet_names = NoSheets
    /\ uploaded_file_name = NoFile
    /\ current_sheet = NoSheet
    /\ shown = FALSE
    /\ DATE_COL = "date"
    /\ INVOICE_COL = "invoice"
    /\ PRODUCT_COL = "product"
    /\ QUANTITY_COL = "quantity"
    /\ CATEGORY_COL = NoColumn
    /\ pc = "idle"
    /\ df_processed = None
    /\ analyses = None
    /\ writer = <<>>
    /\ excel_bytes = None
    /\ error = None
    /\ series = <<>>
    /\ stats = None
    /\ outs = <<>>
    /\ InitNotLaunched

\* A script run: the user has uploaded, replaced or removed a file, or has
\* chosen a sheet, and the script runs from its first line to its last, or to
\* the call that raises.  The column selectors keep their selection: every
\* file has the columns selected.
Run ==
    /\ \E file \in Files \cup {NoFile}, pick \in 1..2, raises \in Raising :
         LET st == [df |-> session_df, sheet_names |-> sheet_names,
                    uploaded_file_name |-> uploaded_file_name,
                    current_sheet |-> current_sheet, selected_sheet |-> selected_sheet,
                    shown |-> shown, done |-> TRUE]
             after == ScriptRun(st, file, pick, raises)
         IN  /\ uploaded_file' = file
             /\ session_df' = after.df
             /\ sheet_names' = after.sheet_names
             /\ uploaded_file_name' = after.uploaded_file_name
             /\ current_sheet' = after.current_sheet
             /\ selected_sheet' = after.selected_sheet
             /\ shown' = after.shown
    /\ UNCHANGED launcherVars
    /\ UNCHANGED <<DATE_COL, INVOICE_COL, PRODUCT_COL, QUANTITY_COL, CATEGORY_COL,
                   pc, df_processed, analyses, writer, excel_bytes, error, series, stats,
                   outs>>

SpecSession == InitSession /\ [][Run]_vars


\* ------------------------------------------------------------ the launcher

\* wait_for_server(url, max_attempts=30)
max_attempts == 30

\* wait_for_server returning True when no attempt is left.
ExhaustedAsReady == TRUE

\* "return False": what wait_for_server returns when no attempt is left.
ExhaustedResult == FALSE

\* The opener is a daemon thread: it ends with the process, wherever it stands.
WhenProcessExits(thread) ==
    IF thread \in {"poll", "sleep", "open"} THEN "killed" ELSE thread

InitLauncher ==
    /\ InitIdle
    /\ pc = "idle"
    /\ series = <<>>
    /\ stats = None
    /\ outs = <<>>
    /\ InitUploaded
    /\ InitNotLaunched

Idle ==
    UNCHANGED <<DATE_COL, INVOICE_COL, PRODUCT_COL, QUANTITY_COL, CATEGORY_COL,
                session_df, pc, df_processed, analyses, writer, excel_bytes, error,
                series, stats, outs, sessionVars>>

\* launch_streamlit finds no app file or no Python: it waits for Enter and
\* returns before any thread is started.
NothingToLaunch ==
    /\ main = "start"
    /\ main' = "exit"
    /\ UNCHANGED <<opener, attempt, server, responded, opened>>
    /\ Idle

\* open_browser_when_ready(url): the daemon thread is started on _open.
StartOpener ==
    /\ main = "start"
    /\ main' = "popen"
    /\ opener' = "poll"
    /\ UNCHANGED <<attempt, server, responded, opened>>
    /\ Idle

\* subprocess.Popen(cmd) starts the Streamlit process.
Popen ==
    /\ main = "popen"
    /\ main' = "wait"
    /\ server' = "starting"
    /\ UNCHANGED <<opener, attempt, responded, opened>>
    /\ Idle

\* subprocess.Popen(cmd) raises: the message is printed and input() waits.
PopenRaises ==
    /\ main = "popen"
    /\ main' = "input"
    /\ UNCHANGED <<opener, attempt, server, responded, opened>>
    /\ Idle

\* Enter is pressed: launch_streamlit returns and the process exits.
PressEnter ==
    /\ main = "input"
    /\ main' = "exit"
    /\ opener' = WhenProcessExits(opener)
    /\ UNCHANGED <<attempt, server, responded, opened>>
    /\ Idle

\* The Streamlit process listens on the port.
ServerUp ==
    /\ server = "starting"
    /\ server' = "up"
    /\ UNCHANGED <<main, opener, attempt, responded, opened>>
    /\ Idle

\* The Streamlit process ends by itself.
ServerExits ==
    /\ server \in {"starting", "up"}
    /\ server' = "exited"
    /\ UNCHANGED <<main, opener, attempt, responded, opened>>
    /\ Idle

\* process.wait() returns: launch_streamlit returns and the process exits.
WaitReturns ==
    /\ main = "wait"
    /\ server = "exited"
    /\ main' = "exit"
    /\ opener' = WhenProcessExits(opener)
    /\ UNCHANGED <<attempt, server, responded, opened>>
    /\ Idle

\* KeyboardInterrupt in process.wait(): the server is terminated and waited for.
KeyboardInterrupt ==
    /\ main = "wait"
    /\ main' = "exit"
    /\ server' = "exited"
    /\ opener' = WhenProcessExits(opener)
    /\ UNCHANGED <<attempt, responded, opened>>
    /\ Idle

\* urllib.request.urlopen(url, timeout=1) in the loop of wait_for_server: a
\* response (from a server that is up) returns True to _open; URLError and
\* OSError are caught; any other exception ends the thread.
Request ==
    /\ opener = "poll"
    /\ attempt < max_attempts
    /\ \E outcome \in {"response", "URLError", "other"} :
         /\ outcome = "response" => server = "up"
         /\ opener' = CASE outcome = "response" -> "open"
                        [] outcome = "URLError" -> "sleep"
                        [] outcome = "other" -> "done"
         /\ responded' = IF outcome = "response" THEN TRUE ELSE responded
    /\ UNCHANGED <<main, attempt, server, opened>>
    /\ Idle

\* time.sleep(1), and the next attempt of the loop.
Sleep ==
    /\ opener = "sleep"
    /\ attempt' = attempt + 1
    /\ opener' = "poll"
    /\ UNCHANGED <<main, server, responded, opened>>
    /\ Idle

\* The loop has run max_attempts times: wait_for_server returns, and _open
\* prints that the server did not start in time.
GiveUp ==
    /\ opener = "poll"
    /\ attempt = max_attempts
    /\ opener' = IF ExhaustedResult THEN "open" ELSE "done"
    /\ UNCHANGED <<main, attempt, server, responded, opened>>
    /\ Idle

\* webbrowser.open(url)
OpenBrowser ==
    /\ opener = "open"
    /\ opened' = opened + 1
    /\ opener' = "done"
    /\ UNCHANGED <<main, attempt, server, responded>>
    /\ Idle

OpenerStep == Request \/ Sleep \/ GiveUp \/ OpenBrowser

NextLauncher ==
    \/ NothingToLaunch \/ StartOpener \/ Popen \/ PopenRaises \/ PressEnter
    \/ ServerUp \/ ServerExits \/ WaitReturns \/ KeyboardInterrupt
    \/ Request \/ Sleep \/ GiveUp \/ OpenBrowser

\* The opener thread is scheduled as long as the process lives.
SpecLauncher == InitLauncher /\ [][NextLauncher]_vars /\ WF_vars(OpenerStep)


\* ------------------------------------------------------------- properties

\* comprehensive_analysis has returned to the handler.
HasAnalyses ==
    \/ pc \in {"export", "done"}
    \/ pc = "error" /\ error.at = "export_analysis_to_excel"

\* The rows of the uploaded table whose date parses.
ValidDateRows ==
    {i \in 1..NRows(session_df) : ~IsNull(ParseDateCell(session_df[DATE_COL].vals[i]))}

\* C1: the Lines_Total of the Daily result add up to the number of uploaded
\* rows whose date parsed; each of these rows falls on the day of exactly one
\* Daily row, and a row whose date did not parse on none.
C1_DailyLinesCoverValidRows ==
    HasAnalyses =>
        LET daily == analyses["Daily"]
            DayOfRow(i) == DtDate(ParseDateCell(session_df[DATE_COL].vals[i]))
        IN  /\ SumSeq(Column(daily, "Lines_Total")) = Cardinality(ValidDateRows)
            /\ \A i \in 1..NRows(session_df) :
                 Cardinality({j \in 1..Len(daily) : daily[j].Period = DayOfRow(i)})
                     = IF i \in ValidDateRows THEN 1 ELSE 0

C1_Witness ==
    /\ HasAnalyses
    /\ ValidDateRows # 1..NRows(session_df)
    /\ \E j \in 1..Len(analyses["Daily"]) : analyses["Daily"][j].Lines_Total >= 2

FivePeriods ==
    { <<"Daily", "Day">>, <<"Weekly", "Year_Week">>, <<"Monthly", "Month">>,
      <<"Weekday", "Weekday">>, <<"Quarterly", "Year_Quarter">> }

\* C2: in each of the five period results, every row counts the rows of its
\* group in Lines_Total and the distinct invoices of its group in
\* Invoices_Unique, and where Invoices_Unique > 0 its Avg_Lines_per_Invoice is
\* Lines_Total / Invoices_Unique.
C2_AvgLinesPerInvoice ==
    HasAnalyses =>
        \A p \in FivePeriods :
            LET table == analyses[p[1]]
                col == df_processed[p[2]].vals
                inv == df_processed[INVOICE_COL].vals
            IN  \A j \in 1..Len(table) :
                    LET I == {i \in 1..Len(col) : col[i] = table[j].Period}
                        lines == Cardinality(I)
                        invoices == Cardinality({inv[i] : i \in I} \ {NaN})
                        avg == table[j].Avg_Lines_per_Invoice
                    IN  /\ table[j].Lines_Total = lines
                        /\ table[j].Invoices_Unique = invoices
                        /\ invoices > 0 => avg.k = "rat" /\ avg.n * invoices = avg.d * lines

C2_Witness ==
    /\ HasAnalyses
    /\ \E j \in 1..Len(analyses["Monthly"]) :
         /\ analyses["Monthly"][j].Lines_Total = 3
         /\ analyses["Monthly"][j].Invoices_Unique = 2
    /\ \E j \in 1..Len(analyses["Daily"]) : analyses["Daily"][j].Invoices_Unique = 1

NotNullStats == {"min", "max", "mean", "median", "std", "p25", "p75", "p90", "p95"}

\* C3: for an empty series and for a series of nulls only, calculate_statistics
\* returns count = 0 and null for every other statistic.
C3_EmptySeriesCountZero ==
    (pc = "done" /\ DropNa(series) = <<>>) =>
        /\ stats[<<"Quantity", "count">>] = Num(0)
        /\ \A st \in NotNullStats : IsNull(stats[<<"Quantity", st>>])

\* x is the number v.
IsNumber(x, v) == (x.k = "num" /\ x.v = v) \/ (x.k = "rat" /\ x.n = v * x.d)

\* C4: for a series with exactly one value v that is not null, whatever nulls
\* come with it, calculate_statistics returns count = 1, min = max = mean =
\* median = p25 = p75 = p90 = p95 = v and std = 0.
C4_SingleValueStatistics ==
    (pc = "done" /\ Len(DropNa(series)) = 1) =>
        LET v == DropNa(series)[1].v
        IN  /\ stats[<<"Quantity", "count">>] = Num(1)
            /\ stats[<<"Quantity", "std">>] = Num(0)
            /\ \A st \in NotNullStats \ {"std"} : IsNumber(stats[<<"Quantity", st>>], v)

C4_Witness ==
    /\ pc = "done"
    /\ Len(series) = 3
    /\ Len(DropNa(series)) = 1
    /\ stats[<<"Quantity", "p90">>].k = "rat"

\* The place of a weekday in the week that starts on Monday.
MondayFirst(w) ==
    CASE w = "Monday" -> 1 [] w = "Tuesday" -> 2 [] w = "Wednesday" -> 3
      [] w = "Thursday" -> 4 [] w = "Friday" -> 5 [] w = "Saturday" -> 6
      [] w = "Sunday" -> 7

\* C5: the rows of the weekday statistics are in the order Monday to Sunday,
\* no weekday twice, and a weekday has a row exactly when a row of the derived
\* table falls on a calendar day of that weekday.
C5_WeekdayOrder ==
    HasAnalyses =>
        LET ws == analyses["Weekday_Statistics"]
            Observed(w) ==
                \E i \in 1..NRows(df_processed) :
                    /\ df_processed["Weekday"].vals[i] = Str(w)
                    /\ ~IsNull(df_processed["Day"].vals[i])
        IN  /\ \A i, j \in 1..Len(ws) :
                 i < j => MondayFirst(ws[i].Weekday) < MondayFirst(ws[j].Weekday)
            /\ \A w \in {"Monday", "Tuesday", "Wednesday", "Thursday", "Friday",
                         "Saturday", "Sunday"} :
                 (\E i \in 1..Len(ws) : ws[i].Weekday = w) <=> Observed(w)

C5_Witness ==
    /\ HasAnalyses
    /\ Len(analyses["Weekday_Statistics"]) = 2
    /\ analyses["Weekday_Statistics"][1].Weekday = "Monday"
    /\ analyses["Weekday_Statistics"][2].Weekday = "Friday"
    /\ ValidDateRows # 1..NRows(session_df)

\* C6: with no category column given, or one that names no column of the
\* table, the result of comprehensive_analysis has no Category_Analysis key,
\* and no exception of comprehensive_analysis is about the category column;
\* with a category column of the table, the key is there.
C6_CategoryKey ==
    /\ HasAnalyses =>
         ("Category_Analysis" \in DOMAIN analyses
             <=> (CATEGORY_COL # NoColumn /\ CATEGORY_COL \in DOMAIN df_processed))
    /\ (pc = "error" /\ error.at = "comprehensive_analysis") =>
         /\ error.what # CATEGORY_COL
         /\ error.what \in {DATE_COL, INVOICE_COL, PRODUCT_COL, QUANTITY_COL, "date"}

C6_Witness ==
    /\ pc = "done"
    /\ CATEGORY_COL = "marca"
    /\ "Category_Analysis" \notin DOMAIN analyses
    /\ NRows(session_df) > 0

\* The columns of the tables fed to the period deriver that the claim of
\* idempotence is about.
DerivedColumns == {"Day", "Year_Week", "Month", "Year_Quarter", "Weekday"}

\* C7: the period deriver applied to its own output returns the derived
\* columns and the date and quantity columns of its first application.
C7_DeriverIdempotent ==
    (Len(outs) >= 2 /\ outs[1].ok) =>
        /\ outs[2].ok
        /\ \A c \in DerivedColumns \cup {DATE_COL, QUANTITY_COL} :
             outs[2].df[c] = outs[1].df[c]

\* The sheets written so far that carry the name.
SheetsNamed(name) == {i \in 1..Len(writer) : writer[i].name = name}

\* The identifiers of a column of the uploaded table.
Identifiers(col) == {c \in Range(session_df[col].vals) : ~IsNull(c)}

\* rows holds one row for each of the identifiers ids, by falling Total_Quantity.
IsRollup(rows, ids) ==
    /\ {rows[i].Key : i \in 1..Len(rows)} = ids
    /\ Len(rows) = Cardinality(ids)
    /\ \A i, j \in 1..Len(rows) :
         i < j => rows[i].Total_Quantity.v >= rows[j].Total_Quantity.v

\* C8: the product rollup and the invoice rollup hold one row for each product
\* (invoice) identifier of the uploaded table, none missing and none twice, in
\* non-increasing order of Total_Quantity.
C8_RollupsCompleteAndSorted ==
    /\ \A i \in SheetsNamed("Product Analysis") :
         IsRollup(writer[i].rows, Identifiers(PRODUCT_COL))
    /\ \A i \in SheetsNamed("Invoice Analysis") :
         IsRollup(writer[i].rows, Identifiers(INVOICE_COL))

C8_Witness ==
    /\ SheetsNamed("Product Analysis") # {}
    /\ \E i \in SheetsNamed("Invoice Analysis") :
         /\ Len(writer[i].rows) = 2
         /\ writer[i].rows[1].Key = Num(102)
         /\ writer[i].rows[1].Total_Quantity.v > writer[i].rows[2].Total_Quantity.v

\* C9: no step changes the caller's table: it keeps its columns and its
\* values as uploaded, through every report generation, and the derived
\* columns are on the table load_and_prepare_data returned.
C9_CallerTableUnchanged ==
    [][/\ session_df' = session_df
       /\ pc' = "loaded" => (DerivedColumns \cup {"Year"}) \subseteq DOMAIN df_processed']_vars

C9_Witness ==
    /\ pc = "loaded"
    /\ NRows(session_df) > 0
    /\ "Day" \in DOMAIN df_processed
    /\ "Day" \notin DOMAIN session_df
    /\ df_processed[DATE_COL].dtype = "datetime64"
    /\ session_df[DATE_COL].dtype = "object"
    /\ df_processed[QUANTITY_COL] # session_df[QUANTITY_COL]

\* C10: bytes are returned only when every sheet of the plan has been written,
\* and a report generation that failed returned none.
C10_ExportAtomic ==
    /\ excel_bytes.k = "bytes" =>
         /\ pc = "done"
         /\ [i \in 1..Len(excel_bytes.workbook) |-> excel_bytes.workbook[i].name]
                = SheetPlan(analyses)
    /\ pc = "error" => excel_bytes.k = "None"

C10_Witness ==
    /\ pc = "error"
    /\ error.at = "export_analysis_to_excel"
    /\ Len(writer) >= 9
    /\ excel_bytes.k = "None"

\* The four required names are columns of the uploaded table and its date
\* column carries no name of a derived column.
PlainSelection ==
    /\ DATE_COL = "date"
    /\ {DATE_COL, INVOICE_COL, PRODUCT_COL, QUANTITY_COL} \subseteq DOMAIN session_df

\* C11: for a table of no rows, and for a table none of whose dates parses,
\* the report generation raises nothing in load_and_prepare_data,
\* comprehensive_analysis or in building the sheets of the export.
C11_DegenerateNeverRaises ==
    (PlainSelection /\ ValidDateRows = {} /\ pc = "error") => error.type = "Exception"

\* The required names that name no column of the uploaded table.
MissingColumns == {DATE_COL, INVOICE_COL, PRODUCT_COL, QUANTITY_COL} \ DOMAIN session_df

\* C12: when a required name is no column of the uploaded table, the report
\* generation ends in a KeyError that names a missing column, raised by
\* load_and_prepare_data or by the overview of comprehensive_analysis: no
\* period analysis, statistic or rollup has run, and no result is returned.
C12_MissingColumnRaisesFirst ==
    MissingColumns # {} =>
        /\ ~HasAnalyses
        /\ pc = "error" =>
             /\ error.type = "KeyError"
             /\ error.what \in MissingColumns
             /\ error.at = "comprehensive_analysis" => ~Overview(df_processed).ok

\* The names of the sheets of a workbook, in the order they were written.
SheetNames(workbook) == [i \in 1..Len(workbook) |-> workbook[i].name]

\* C13: the workbook returned holds the sheets Summary, Daily Analysis, Weekly
\* Analysis, Monthly Analysis, Weekday Analysis, Quarterly Analysis, Daily
\* Statistics Summary, Weekday Statistics Summary, Category Analysis exactly
\* when the analyses have the key Category_Analysis, Product Analysis, Invoice
\* Analysis and Raw Data Sample, and no other, written in this order.
C13_SheetOrder ==
    LET expected ==
            <<"Summary", "Daily Analysis", "Weekly Analysis", "Monthly Analysis",
              "Weekday Analysis", "Quarterly Analysis", "Daily Statistics Summary",
              "Weekday Statistics Summary">>
            \o (IF "Category_Analysis" \in DOMAIN analyses
                THEN <<"Category Analysis">> ELSE <<>>)
            \o <<"Product Analysis", "Invoice Analysis", "Raw Data Sample">>
    IN  /\ Len(writer) <= Len(expected)
        /\ SheetNames(writer) = SubSeq(expected, 1, Len(writer))
        /\ excel_bytes.k = "bytes" => SheetNames(excel_bytes.workbook) = expected

C13_Witness ==
    /\ pc = "done"
    /\ excel_bytes.k = "bytes"
    /\ "Category_Analysis" \in DOMAIN analyses
    /\ Len(excel_bytes.workbook) = 12
    /\ excel_bytes.workbook[9].name = "Category Analysis"
    /\ excel_bytes.workbook[9].rows # <<>>

C15_SessionTableIsCurrent ==
    shown =>
        /\ uploaded_file # NoFile
        /\ session_df = IF IsExcel(uploaded_file)
                        THEN parse(uploaded_file, selected_sheet)
                        ELSE read_csv(uploaded_file)

C15_Witness ==
    /\ shown
    /\ uploaded_file = "b.xlsx"
    /\ selected_sheet = "S1"
    /\ current_sheet = "S1"
    /\ session_df = parse("b.xlsx", "S1")

\* C16: webbrowser.open(url) is called at most once, and only after urlopen(url)
\* has returned a response; when max_attempts attempts have passed without a
\* response the browser is not opened, then or later, and the opener thread
\* comes to its end.
C16_BrowserOpenedOnceWhenReady ==
    /\ [](opened <= 1 /\ (opened > 0 => responded))
    /\ []((attempt = max_attempts /\ ~responded) => opened = 0)
    /\ (attempt = max_attempts /\ ~responded) ~> (opener \in {"done", "killed"} /\ opened = 0)

C16_Witness ==
    /\ attempt = max_attempts
    /\ opener = "done"
    /\ ~responded
    /\ opened = 0
    /\ server = "up"
    /\ main = "wait"


====
